---- MODULE Spec2Model ----
(***************************************************************************)
(* imgs_to_video.py: a directory of numbered image frames is cut into      *)
(* fixed-length chunks; each chunk becomes a clean video, an annotated     *)
(* video and a per-chunk CSV of the points of its frames.                  *)
(*                                                                         *)
(* File names and CSV fields are sequences of one-character strings, so    *)
(* that str.startswith, "in", re.search, re.findall, int() and str() are   *)
(* computed on the characters as the code computes them.                   *)
(*                                                                         *)
(* The cv2 calls are total, as the code uses them: imread returns a frame  *)
(* or None, VideoWriter opens the named file, write/release/resize/circle  *)
(* return.  output_prefix has a directory part, as in the __main__ block.  *)
(***************************************************************************)
EXTENDS Integers, Sequences, FiniteSets, TLC

\* ------------------------------------------------------------------ bounds
MaxImages == 4
MaxChunk == 3
MaxRows == 2
LoadMaxRows == 3
MaxExisting == 3
MaxRuns == 2
RerunMaxImages == 2

\* -------------------------------------------------------------- characters
DigitChars == {"0", "1", "2", "3", "4", "5", "6", "7", "8", "9"}

DigitVal(c) ==
  CASE c = "0" -> 0 [] c = "1" -> 1 [] c = "2" -> 2 [] c = "3" -> 3
    [] c = "4" -> 4 [] c = "5" -> 5 [] c = "6" -> 6 [] c = "7" -> 7
    [] c = "8" -> 8 [] c = "9" -> 9

DigitChar(d) ==
  CASE d = 0 -> "0" [] d = 1 -> "1" [] d = 2 -> "2" [] d = 3 -> "3"
    [] d = 4 -> "4" [] d = 5 -> "5" [] d = 6 -> "6" [] d = 7 -> "7"
    [] d = 8 -> "8" [] d = 9 -> "9"

\* The code point of the characters the file names of the model use.
Ord(c) ==
  CASE c = "." -> 46
    [] c \in DigitChars -> 48 + DigitVal(c)
    [] c = "G" -> 71 [] c = "J" -> 74 [] c = "N" -> 78 [] c = "P" -> 80
    [] c = "_" -> 95
    [] c = "a" -> 97 [] c = "b" -> 98 [] c = "c" -> 99 [] c = "d" -> 100
    [] c = "e" -> 101 [] c = "f" -> 102 [] c = "g" -> 103 [] c = "j" -> 106
    [] c = "k" -> 107 [] c = "l" -> 108 [] c = "m" -> 109 [] c = "n" -> 110
    [] c = "o" -> 111 [] c = "p" -> 112 [] c = "s" -> 115 [] c = "t" -> 116
    [] c = "u" -> 117 [] c = "v" -> 118 [] c = "x" -> 120

\* str.lower() on one character.
LowerChar(c) ==
  CASE c = "G" -> "g" [] c = "J" -> "j" [] c = "N" -> "n" [] c = "P" -> "p"
    [] OTHER -> c

Lower(s) == [k \in 1..Len(s) |-> LowerChar(s[k])]

\* ----------------------------------------------------------------- strings
StartsWith(s, p) == Len(p) <= Len(s) /\ SubSeq(s, 1, Len(p)) = p

EndsWith(s, p) == Len(p) <= Len(s) /\ SubSeq(s, Len(s) - Len(p) + 1, Len(s)) = p

\* p occurs in s at position k (1-based).
OccursAt(s, p, k) == k + Len(p) - 1 <= Len(s) /\ SubSeq(s, k, k + Len(p) - 1) = p

\* Python's "p in s".
Contains(s, p) == \E k \in 1..(Len(s) + 1) : OccursAt(s, p, k)

\* int() of a run of decimal digits.
RECURSIVE DecVal(_)
DecVal(ds) ==
  IF ds = <<>> THEN 0
  ELSE 10 * DecVal(SubSeq(ds, 1, Len(ds) - 1)) + DigitVal(ds[Len(ds)])

\* str() of a non-negative integer.
RECURSIVE Dec(_)
Dec(n) == IF n < 10 THEN <<DigitChar(n)>> ELSE Dec(n \div 10) \o <<DigitChar(n % 10)>>

\* Length of the longest run of digits of s that starts at position k.
RECURSIVE DigitRunLen(_, _)
DigitRunLen(s, k) ==
  IF k <= Len(s) /\ s[k] \in DigitChars THEN 1 + DigitRunLen(s, k + 1) ELSE 0

\* re.findall(r'\d+', s): the maximal runs of digits of s, left to right.
RECURSIVE FindAllDigits(_, _)
FindAllDigits(s, k) ==
  IF k > Len(s) THEN <<>>
  ELSE LET n == DigitRunLen(s, k)
       IN IF n = 0 THEN FindAllDigits(s, k + 1)
          ELSE <<SubSeq(s, k, k + n - 1)>> \o FindAllDigits(s, k + n)

\* ------------------------------------------------------------ natural sort
\* Python's str "<": by code point, a proper prefix first.
RECURSIVE StrLess(_, _)
StrLess(a, b) ==
  IF b = <<>> THEN FALSE
  ELSE IF a = <<>> THEN TRUE
  ELSE IF a[1] # b[1] THEN Ord(a[1]) < Ord(b[1])
  ELSE StrLess(Tail(a), Tail(b))

\* Length of the longest run of non-digits of s that starts at position k.
RECURSIVE TextRunLen(_, _)
TextRunLen(s, k) ==
  IF k <= Len(s) /\ s[k] \notin DigitChars THEN 1 + TextRunLen(s, k + 1) ELSE 0

\* natsort's key of a name is its text runs and numbers in turn, text first, and
\* two keys compare as tuples.  NatLessFrom compares the keys of a from position
\* ka and of b from position kb, each standing at the start of a text run (empty
\* only where a name starts with a digit): the text runs as strings, then the
\* numbers after them; a key that ends first is the smaller.
RECURSIVE NatLessFrom(_, _, _, _)
NatLessFrom(a, b, ka, kb) ==
  IF kb > Len(b) THEN FALSE
  ELSE IF ka > Len(a) THEN TRUE
  ELSE \E ta \in {TextRunLen(a, ka)}, tb \in {TextRunLen(b, kb)} :
       \E da \in {DigitRunLen(a, ka + ta)}, db \in {DigitRunLen(b, kb + tb)} :
       \E txa \in {SubSeq(a, ka, ka + ta - 1)}, txb \in {SubSeq(b, kb, kb + tb - 1)} :
       \E na \in {DecVal(SubSeq(a, ka + ta, ka + ta + da - 1))},
          nb \in {DecVal(SubSeq(b, kb + tb, kb + tb + db - 1))} :
         IF txa # txb THEN StrLess(txa, txb)
         ELSE IF db = 0 THEN FALSE
         ELSE IF da = 0 THEN TRUE
         ELSE IF na # nb THEN na < nb
         ELSE NatLessFrom(a, b, ka + ta + da, kb + tb + db)

NatLess(a, b) == NatLessFrom(a, b, 1, 1)

\* natsorted(names) of a directory listing: each name stands after the names
\* with a smaller key (the names of a listing are distinct, and the names used
\* here have distinct keys, so the order is determined).
natsorted(S) ==
  [k \in 1..Cardinality(S) |->
     CHOOSE x \in S : Cardinality({y \in S : NatLess(y, x)}) = k - 1]

ImageExts == { <<".", "j", "p", "g">>, <<".", "j", "p", "e", "g">>, <<".", "p", "n", "g">> }

\* img.lower().endswith(('.jpg', '.jpeg', '.png'))
IsImage(f) == \E ext \in ImageExts : EndsWith(Lower(f), ext)

\* ------------------------------------------------------------ load_csv_data
\* csv.DictReader's restval: the value of a column the row has no field for.
NoneVal == <<"None">>

EmptyTable == [x \in {} |-> <<>>]

\* int(t): a record [err, val]; err is "" when t parses.
ParseInt(t) ==
  IF t = NoneVal THEN [err |-> "TypeError", val |-> 0]
  ELSE LET signed == t # <<>> /\ t[1] \in {"-", "+"}
           ds == IF signed THEN Tail(t) ELSE t
       IN IF ds # <<>> /\ \A k \in 1..Len(ds) : ds[k] \in DigitChars
          THEN [err |-> "", val |-> IF signed /\ t[1] = "-" THEN 0 - DecVal(ds) ELSE DecVal(ds)]
          ELSE [err |-> "ValueError", val |-> 0]

ColumnPos(header, col) == CHOOSE k \in 1..Len(header) : header[k] = col

HasColumn(header, col) == \E k \in 1..Len(header) : header[k] = col

\* row[col] of the dict DictReader builds for one line.
RowField(header, line, col) ==
  IF ColumnPos(header, col) <= Len(line) THEN line[ColumnPos(header, col)] ELSE NoneVal

\* int(row[col]): KeyError when the header has no such column.
IntField(header, line, col) ==
  IF ~HasColumn(header, col) THEN [err |-> "KeyError", val |-> 0]
  ELSE ParseInt(RowField(header, line, col))

\* The body of the inner try for one row: [err, frame, point].
ParseRow(header, line) ==
  LET fr == IntField(header, line, "Frame")
      x == IntField(header, line, "X")
      y == IntField(header, line, "Y")
      err == IF fr.err # "" THEN fr.err ELSE IF x.err # "" THEN x.err ELSE y.err
      name == IF HasColumn(header, "Object Name")
              THEN RowField(header, line, "Object Name") ELSE <<"Unknown">>
  IN [err |-> err, frame |-> fr.val, point |-> [name |-> name, x |-> x.val, y |-> y.val]]

\* points_map[frame].append(point)
TableAppend(t, frame, point) ==
  IF frame \in DOMAIN t THEN [t EXCEPT ![frame] = Append(@, point)]
  ELSE t @@ (frame :> <<point>>)

\* What the inner except clause catches: the row is skipped.
RowErrorCaught(err) == err \in {"ValueError", "KeyError"}

\* The for loop over the reader from row k on; an exception the inner except
\* does not catch leaves the loop and is caught by the outer except.
RECURSIVE LoadRows(_, _, _, _)
LoadRows(header, rows, k, table) ==
  IF k > Len(rows) THEN table
  ELSE LET r == ParseRow(header, rows[k])
       IN IF r.err = "" THEN LoadRows(header, rows, k + 1, TableAppend(table, r.frame, r.point))
          ELSE IF RowErrorCaught(r.err) THEN LoadRows(header, rows, k + 1, table)
          ELSE table

load_csv_data(file) ==
  IF ~file.exists THEN EmptyTable
  ELSE IF ~file.readable THEN EmptyTable
  ELSE LoadRows(file.header, file.rows, 1, EmptyTable)

\* ----------------------------------------------------- get_next_video_index
CleanSuffix == <<"_", "c", "l", "e", "a", "n", ".", "m", "p", "4">>

\* The regex  prefix _ (\d+) _clean\.mp4  matched at position k of f: the digits
\* of group 1, or <<>> when it does not match there.
MatchAt(f, prefix, k) ==
  LET u == k + Len(prefix)
      n == DigitRunLen(f, u + 1)
  IN IF OccursAt(f, prefix, k) /\ u <= Len(f) /\ f[u] = "_" /\ n >= 1
        /\ OccursAt(f, CleanSuffix, u + 1 + n)
     THEN SubSeq(f, u + 1, u + n) ELSE <<>>

\* re.search from position k on: the leftmost match; int(match.group(1)), or -1
\* for no match.
RECURSIVE SearchFrom(_, _, _)
SearchFrom(f, prefix, k) ==
  IF k > Len(f) THEN -1
  ELSE IF MatchAt(f, prefix, k) # <<>> THEN DecVal(MatchAt(f, prefix, k))
  ELSE SearchFrom(f, prefix, k + 1)

SearchIndex(f, prefix) == SearchFrom(f, prefix, 1)

SetMax(S) == CHOOSE x \in S : \A y \in S : y <= x

\* The listing filter of line 56.
Existing(files, prefix) ==
  {f \in files : StartsWith(f, prefix) /\ Contains(f, CleanSuffix)}

get_next_video_index_off(files, prefix) ==
  LET indices == {SearchIndex(f, prefix) : f \in Existing(files, prefix)} \ {-1}
  IN IF indices = {} THEN 1 ELSE SetMax(indices)

get_next_video_index(files, prefix) ==
  LET indices == {SearchIndex(f, prefix) : f \in Existing(files, prefix)} \ {-1}
  IN (IF indices = {} THEN 0 ELSE SetMax(indices)) + 1

\* ------------------------------------------------------------------- state
VARIABLES
  pc,               \* where split_images_to_videos stands
  run,              \* number of the run (1 for the first)
  csv_file,         \* the file at csv_path: [exists, readable, header, rows]
  input_dir,        \* os.listdir(input_folder)
  frames_per_video, \* the chunk size argument
  frame_size_arg,   \* TRUE when explicit frame dimensions were supplied
  out_exists,       \* the output folder exists
  out_files,        \* os.listdir(folder) of the output folder
  points_map,
  images,
  first_frame,      \* "unread", "frame" or "none" (imread returned None)
  frame_size,       \* "unset", "given" or "first"
  starting_index,
  i,                \* the chunk loop's variable
  video_images,
  j,                \* local_frame_index of the next image of the chunk
  chunk_csv_data,
  clean_frames,     \* frames written to out_clean
  annotated_frames, \* frames written to out_annotated
  decoded,          \* history: the images of the chunk imread returned a frame for
  row_src,          \* history: for each row of chunk_csv_data, the image it came from
  out_scanned,      \* history: the run listed the output folder
  out_at_start,     \* history: the output folder when the run started
  chunks,           \* history: the slices taken, in order
  events            \* history: what the run did to its outputs, in order

vars ==
  <<pc, run, csv_file, input_dir, frames_per_video, frame_size_arg, out_exists,
    out_files, points_map, images, frame_size, starting_index, i,
    video_images, j, chunk_csv_data, clean_frames, annotated_frames, decoded,
    row_src, out_scanned, out_at_start, chunks, events, first_frame>>

inputs == <<csv_file, input_dir, frames_per_video, frame_size_arg>>

\* What steps 1 to 3 set.
setup == <<points_map, images, first_frame, frame_size>>

\* What one pass of the chunk loop sets.
chunk_state ==
  <<video_images, j, chunk_csv_data, clean_frames, annotated_frames, decoded, row_src>>

\* os.path.basename(output_prefix)
OutPrefix == <<"o", "u", "t">>

CleanName(idx) == OutPrefix \o <<"_">> \o Dec(idx) \o CleanSuffix

AnnotatedName(idx) ==
  OutPrefix \o <<"_">> \o Dec(idx)
    \o <<"_", "a", "n", "n", "o", "t", "a", "t", "e", "d", ".", "m", "p", "4">>

CsvName(idx) == OutPrefix \o <<"_">> \o Dec(idx) \o <<".", "c", "s", "v">>

\* ------------------------------------------------- split_images_to_videos
\* 1. Load the points data.
LoadPoints ==
  /\ pc = "load"
  /\ points_map' = load_csv_data(csv_file)
  /\ pc' = "list"
  /\ UNCHANGED <<run, inputs, out_exists, out_files, images, first_frame, frame_size,
                 starting_index, i, chunk_state, out_scanned, out_at_start, chunks,
                 events>>

\* 2. Get and sort the image files; ValueError when there is none.
ListImages ==
  /\ pc = "list"
  /\ images' = natsorted({f \in input_dir : IsImage(f)})
  /\ pc' = IF Len(images') = 0 THEN "aborted" ELSE "first"
  /\ UNCHANGED <<run, inputs, out_exists, out_files, points_map, first_frame,
                 frame_size, starting_index, i, chunk_state, out_scanned,
                 out_at_start, chunks, events>>

ReadFirstFrame_unchecked ==
  /\ pc = "first"
  /\ \E ok \in BOOLEAN :
       /\ first_frame' = IF ok THEN "frame" ELSE "none"
       /\ pc' = IF ok \/ frame_size_arg THEN "calc" ELSE "aborted"
       /\ frame_size' = IF frame_size_arg THEN "given" ELSE IF ok THEN "first" ELSE frame_size
  /\ UNCHANGED <<run, inputs, out_exists, out_files, points_map, images,
                 starting_index, i, chunk_state, out_scanned, out_at_start, chunks,
                 events>>

\* 3. Read the first image for the frame size; RuntimeError when imread
\*    returns None.
ReadFirstFrame ==
  /\ pc = "first"
  /\ \E ok \in BOOLEAN :
       /\ first_frame' = IF ok THEN "frame" ELSE "none"
       /\ IF ~ok THEN pc' = "aborted" /\ frame_size' = frame_size
          ELSE pc' = "calc" /\ frame_size' = IF frame_size_arg THEN "given" ELSE "first"
  /\ UNCHANGED <<run, inputs, out_exists, out_files, points_map, images,
                 starting_index, i, chunk_state, out_scanned, out_at_start, chunks,
                 events>>

\* math.floor(total_images / frames_per_video)
FloorDiv(m, c) == m \div c

\* math.ceil(total_images / frames_per_video)
CeilDiv(m, c) == (m + c - 1) \div c

total_videos_floor == FloorDiv(Len(images), frames_per_video)

\* 4. Calculation: total_videos ...
total_videos == CeilDiv(Len(images), frames_per_video)

\* ... and starting_index; get_next_video_index creates the output folder when
\*    it is missing and lists it.
Calculate ==
  /\ pc = "calc"
  /\ out_exists' = TRUE
  /\ out_scanned' = TRUE
  /\ starting_index' = get_next_video_index(IF out_exists THEN out_files ELSE {}, OutPrefix)
  /\ i' = 0
  /\ pc' = IF total_videos > 0 THEN "chunk" ELSE "done"
  /\ UNCHANGED <<run, inputs, out_files, setup, chunk_state, out_at_start, chunks,
                 events>>

start_idx == i * frames_per_video

Min(a, b) == IF a <= b THEN a ELSE b

end_idx == Min(start_idx + frames_per_video, Len(images))

\* images[start_idx:end_idx]
Slice(s, from, to) == SubSeq(s, from + 1, Min(to, Len(s)))

current_vid_idx_fixed == starting_index

current_vid_idx == starting_index + i

\* The head of the chunk loop: the slice, the paths, the two writers.
OpenChunk ==
  /\ pc = "chunk"
  /\ video_images' = Slice(images, start_idx, end_idx)
  /\ out_files' = out_files \cup {CleanName(current_vid_idx), AnnotatedName(current_vid_idx)}
  /\ chunk_csv_data' = <<>>
  /\ j' = 0
  /\ clean_frames' = 0
  /\ annotated_frames' = 0
  /\ decoded' = <<>>
  /\ row_src' = <<>>
  /\ chunks' = Append(chunks, video_images')
  /\ events' = Append(events, [op |-> "open", idx |-> current_vid_idx])
  /\ pc' = "frames"
  /\ UNCHANGED <<run, inputs, out_exists, setup, starting_index, i, out_scanned,
                 out_at_start>>

local_frame_index_written == clean_frames

\* enumerate(video_images)
local_frame_index == j

global_frame_num_first(img_name) == DecVal(FindAllDigits(img_name, 1)[1])

\* int(nums[-1])
global_frame_num(img_name) ==
  LET nums == FindAllDigits(img_name, 1) IN DecVal(nums[Len(nums)])

\* points_map.get(global_frame_num, []) under "if nums:"
PointsOf(img_name) ==
  IF FindAllDigits(img_name, 1) = <<>> THEN <<>>
  ELSE IF global_frame_num(img_name) \in DOMAIN points_map
       THEN points_map[global_frame_num(img_name)] ELSE <<>>

\* The rows appended to chunk_csv_data for one image.
RowsOf(img_name) ==
  LET points == PointsOf(img_name)
  IN [k \in 1..Len(points) |->
        [Frame |-> local_frame_index, Name |-> points[k].name,
         X |-> points[k].x, Y |-> points[k].y]]

WriteFrames_annotated_if_nums(img_name) ==
  /\ clean_frames' = clean_frames + 1
  /\ chunk_csv_data' = chunk_csv_data \o RowsOf(img_name)
  /\ annotated_frames' =
       IF FindAllDigits(img_name, 1) # <<>> THEN annotated_frames + 1 ELSE annotated_frames

\* What the loop body does with a decoded frame: the clean write, the rows,
\* the annotated write.
WriteFrames(img_name) ==
  /\ clean_frames' = clean_frames + 1
  /\ chunk_csv_data' = chunk_csv_data \o RowsOf(img_name)
  /\ annotated_frames' = annotated_frames + 1

\* One pass of the frame loop; imread returns a frame or None.
ProcessImage ==
  /\ pc = "frames"
  /\ j < Len(video_images)
  /\ \E ok \in BOOLEAN :
       IF ok
       THEN /\ WriteFrames(video_images[j + 1])
            /\ decoded' = Append(decoded, video_images[j + 1])
            /\ row_src' = row_src \o [k \in 1..(Len(chunk_csv_data') - Len(chunk_csv_data))
                                        |-> video_images[j + 1]]
       ELSE UNCHANGED <<clean_frames, chunk_csv_data, annotated_frames, decoded, row_src>>
  /\ j' = j + 1
  /\ events' = Append(events, [op |-> "image", idx |-> current_vid_idx])
  /\ UNCHANGED <<pc, run, inputs, out_exists, out_files, setup, starting_index, i,
                 video_images, out_scanned, out_at_start, chunks>>

\* out_clean.release(); out_annotated.release()
ReleaseChunk ==
  /\ pc = "frames"
  /\ j = Len(video_images)
  /\ events' = Append(events, [op |-> "release", idx |-> current_vid_idx])
  /\ pc' = "save"
  /\ UNCHANGED <<run, inputs, out_exists, out_files, setup, starting_index, i,
                 chunk_state, out_scanned, out_at_start, chunks>>

HasChunkData_always == TRUE

\* if chunk_csv_data:
HasChunkData == chunk_csv_data # <<>>

\* 3. Save the chunk CSV (the write may raise; the except logs it), then the
\*    loop goes on to the next chunk.
SaveChunkCsv ==
  /\ pc = "save"
  /\ IF HasChunkData
     THEN \E ok \in BOOLEAN :
            /\ out_files' = IF ok THEN out_files \cup {CsvName(current_vid_idx)} ELSE out_files
            /\ events' = Append(events, [op |-> IF ok THEN "csv_saved" ELSE "csv_failed",
                                         idx |-> current_vid_idx])
     ELSE /\ out_files' = out_files
          /\ events' = Append(events, [op |-> "csv_skipped", idx |-> current_vid_idx])
  /\ i' = i + 1
  /\ pc' = IF i + 1 < total_videos THEN "chunk" ELSE "done"
  /\ UNCHANGED <<run, inputs, out_exists, setup, starting_index, chunk_state,
                 out_scanned, out_at_start, chunks>>

\* ------------------------------------------------------------------ inputs
SeqsUpTo(S, n) == UNION {[1..k -> S] : k \in 0..n}

\* The input folder: a.png, c2_01.JPG, f1.png, f2.png, f10.jpeg, and pts.csv.
ImgNoDigits == <<"a", ".", "p", "n", "g">>

ImgTwoRuns == <<"c", "2", "_", "0", "1", ".", "J", "P", "G">>

ImgF1 == <<"f", "1", ".", "p", "n", "g">>

ImgF2 == <<"f", "2", ".", "p", "n", "g">>

ImgF10 == <<"f", "1", "0", ".", "j", "p", "e", "g">>

ImageCatalog == {ImgNoDigits, ImgTwoRuns, ImgF1, ImgF2, ImgF10}

OtherInputFiles == { <<"p", "t", "s", ".", "c", "s", "v">> }

InputDirs ==
  {S \cup OtherInputFiles : S \in {T \in SUBSET ImageCatalog : Cardinality(T) <= MaxImages}}

\* The annotation file.
Header4 == <<"Frame", "Object Name", "X", "Y">>

HeaderNoName == <<"Frame", "X", "Y">>

HeaderNoY == <<"Frame", "Object Name", "X">>

NoCsv == [exists |-> FALSE, readable |-> FALSE, header |-> <<>>, rows |-> <<>>]

CsvWith(header, rows) ==
  [exists |-> TRUE, readable |-> TRUE, header |-> header, rows |-> rows]

\* Well-formed lines for frames 1, 2 and 9 (no image has frame number 9).
PipeLines ==
  { << <<"1">>, <<"a">>, <<"5">>, <<"6">> >>,
    << <<"2">>, <<"b">>, <<"7">>, <<"8">> >>,
    << <<"9">>, <<"c">>, <<"1">>, <<"1">> >> }

PipeCsvFiles == {NoCsv} \cup {CsvWith(Header4, r) : r \in SeqsUpTo(PipeLines, MaxRows)}

\* Lines for the loader alone: well-formed ones, a non-integer Frame, a
\* non-integer X, an empty Y, and a line that stops after its second field.
LoadLines ==
  { << <<"1">>, <<"a">>, <<"5">>, <<"6">> >>,
    << <<"2">>, <<"b">>, <<"7">>, <<"8">> >>,
    << <<"x">>, <<"a">>, <<"5">>, <<"6">> >>,
    << <<"1">>, <<"a">>, <<"1", ".", "5">>, <<"6">> >>,
    << <<"1">>, <<"a">>, <<"5">>, <<>> >>,
    << <<"2">>, <<"b">> >> }

LoadCsvFiles ==
  {NoCsv, [exists |-> TRUE, readable |-> FALSE, header |-> <<>>, rows |-> <<>>]}
    \cup {CsvWith(h, r) : h \in {Header4, HeaderNoName, HeaderNoY},
                          r \in SeqsUpTo(LoadLines, LoadMaxRows)}

\* The output folder.
PipeOutDirs ==
  { [exists |-> FALSE, files |-> {}],
    [exists |-> TRUE, files |-> {}],
    [exists |-> TRUE, files |-> {CleanName(1), AnnotatedName(1), CsvName(1), CleanName(2),
                                 AnnotatedName(2)}] }

\* Names for the indexer alone: out_<n>_clean.mp4 for small n, out_07_clean.mp4,
\* out_12_clean.mp4, out_5_clean.mp4.bak, out_x_out_9_clean.mp4,
\* out_4_annotated.mp4, out_4.csv, out_x_clean.mp4, xout_8_clean.mp4.
IndexCatalog ==
  {CleanName(n) : n \in 1..MaxExisting}
    \cup { OutPrefix \o <<"_", "0", "7">> \o CleanSuffix,
           CleanName(12),
           CleanName(5) \o <<".", "b", "a", "k">>,
           OutPrefix \o <<"_", "x", "_">> \o CleanName(9),
           AnnotatedName(4),
           CsvName(4),
           OutPrefix \o <<"_", "x">> \o CleanSuffix,
           <<"x">> \o CleanName(8) }

IndexOutDirs ==
  {[exists |-> FALSE, files |-> {}]} \cup {[exists |-> TRUE, files |-> S] : S \in SUBSET IndexCatalog}

RerunCatalog ==
  {CleanName(1), CleanName(3), CleanName(2) \o <<".", "b", "a", "k">>, AnnotatedName(4)}

RerunOutDirs ==
  {[exists |-> FALSE, files |-> {}]} \cup {[exists |-> TRUE, files |-> S] : S \in SUBSET RerunCatalog}

RerunInputDirs ==
  {S \cup OtherInputFiles :
     S \in {T \in SUBSET {ImgNoDigits, ImgF1, ImgF2} : Cardinality(T) <= RerunMaxImages}}

\* ---------------------------------------------------------- specifications
\* The state when split_images_to_videos is called.
InitWith(csvs, dirs, sizes, fsargs, outs) ==
  /\ pc = "load"
  /\ run = 1
  /\ csv_file \in csvs
  /\ input_dir \in dirs
  /\ frames_per_video \in sizes
  /\ frame_size_arg \in fsargs
  /\ \E o \in outs : out_exists = o.exists /\ out_files = o.files /\ out_at_start = o
  /\ points_map = EmptyTable
  /\ images = <<>>
  /\ first_frame = "unread"
  /\ frame_size = "unset"
  /\ starting_index = 0
  /\ i = 0
  /\ video_images = <<>>
  /\ j = 0
  /\ chunk_csv_data = <<>>
  /\ clean_frames = 0
  /\ annotated_frames = 0
  /\ decoded = <<>>
  /\ row_src = <<>>
  /\ out_scanned = FALSE
  /\ chunks = <<>>
  /\ events = <<>>

Init == InitWith(PipeCsvFiles, InputDirs, 1..MaxChunk, BOOLEAN, PipeOutDirs)

Next ==
  \/ LoadPoints
  \/ ListImages
  \/ ReadFirstFrame
  \/ Calculate
  \/ OpenChunk
  \/ ProcessImage
  \/ ReleaseChunk
  \/ SaveChunkCsv

Spec == Init /\ [][Next]_vars

\* The run is sequential code: whatever step is next is taken.
FairCsvFiles ==
  {NoCsv, CsvWith(Header4, << << <<"1">>, <<"a">>, <<"5">>, <<"6">> >>, << <<"2">>, <<"b">>, <<"7">>, <<"8">> >> >>)}

InitFair == InitWith(FairCsvFiles, InputDirs, 1..MaxChunk, {FALSE}, PipeOutDirs)

FairSpec == InitFair /\ [][Next]_vars /\ WF_vars(Next)

\* load_csv_data alone, over the annotation files.
InitLoad == InitWith(LoadCsvFiles, {{ImgF1} \cup OtherInputFiles}, {1}, {FALSE}, {[exists |-> TRUE, files |-> {}]})

NextLoad == LoadPoints

SpecLoad == InitLoad /\ [][NextLoad]_vars

\* get_next_video_index alone, over the listings of the output folder: the run
\* stands at step 4 with one image.
InitIndex ==
  /\ pc = "calc"
  /\ run = 1
  /\ csv_file = NoCsv
  /\ input_dir = {ImgF1} \cup OtherInputFiles
  /\ frames_per_video = 1
  /\ frame_size_arg = FALSE
  /\ \E o \in IndexOutDirs : out_exists = o.exists /\ out_files = o.files /\ out_at_start = o
  /\ points_map = EmptyTable
  /\ images = <<ImgF1>>
  /\ first_frame = "frame"
  /\ frame_size = "first"
  /\ starting_index = 0
  /\ i = 0
  /\ video_images = <<>>
  /\ j = 0
  /\ chunk_csv_data = <<>>
  /\ clean_frames = 0
  /\ annotated_frames = 0
  /\ decoded = <<>>
  /\ row_src = <<>>
  /\ out_scanned = FALSE
  /\ chunks = <<>>
  /\ events = <<>>

NextIndex == Calculate

SpecIndex == InitIndex /\ [][NextIndex]_vars

\* Consecutive runs against the same output prefix.
InitRerun == InitWith({NoCsv}, RerunInputDirs, 1..MaxChunk, {FALSE}, RerunOutDirs)

\* The program is started again after a run ended.
Rerun ==
  /\ pc \in {"done", "aborted"}
  /\ run < MaxRuns
  /\ run' = run + 1
  /\ input_dir' \in RerunInputDirs
  /\ frames_per_video' \in 1..MaxChunk
  /\ out_at_start' = [exists |-> out_exists, files |-> out_files]
  /\ pc' = "load"
  /\ points_map' = EmptyTable
  /\ images' = <<>>
  /\ first_frame' = "unread"
  /\ frame_size' = "unset"
  /\ starting_index' = 0
  /\ i' = 0
  /\ video_images' = <<>>
  /\ j' = 0
  /\ chunk_csv_data' = <<>>
  /\ clean_frames' = 0
  /\ annotated_frames' = 0
  /\ decoded' = <<>>
  /\ row_src' = <<>>
  /\ out_scanned' = FALSE
  /\ chunks' = <<>>
  /\ events' = <<>>
  /\ UNCHANGED <<csv_file, frame_size_arg, out_exists, out_files>>

NextRerun == Next \/ Rerun

SpecRerun == InitRerun /\ [][NextRerun]_vars

\* ------------------------------------------------------------------ claims
RECURSIVE Flatten(_)
Flatten(ss) == IF ss = <<>> THEN <<>> ELSE ss[1] \o Flatten(Tail(ss))

Last(q) == q[Len(q)]

Range(q) == {q[k] : k \in 1..Len(q)}

\* C1: when the run is done, the slices it took are ceil(M / C) in number (the
\* least n with n * C >= M), they concatenate to the sorted image list, every
\* slice but the last holds C images, the last holds M mod C (C when that is 0),
\* and none is empty.
Claim_C1 ==
  pc = "done" =>
    LET M == Len(images)
        C == frames_per_video
        n == Len(chunks)
    IN /\ n * C >= M /\ (n - 1) * C < M
       /\ Flatten(chunks) = images
       /\ \A k \in 1..(n - 1) : Len(chunks[k]) = C
       /\ n >= 1 /\ Len(chunks[n]) = (IF M % C = 0 THEN C ELSE M % C)
       /\ \A k \in 1..n : Len(chunks[k]) >= 1

\* Two full chunks and a shorter last one, or one full chunk and a shorter one.
Witness_C1 ==
  /\ pc = "done"
  /\ Len(chunks) >= 2
  /\ Len(images) % frames_per_video # 0
  /\ frames_per_video >= 2

\* f is exactly  prefix _ digits _clean.mp4 .
ExactDigits(f) ==
  SubSeq(f, Len(OutPrefix) + 2, Len(f) - Len(CleanSuffix))

IsExactClean(f) ==
  /\ Len(f) > Len(OutPrefix) + 1 + Len(CleanSuffix)
  /\ \A k \in 1..Len(ExactDigits(f)) : ExactDigits(f)[k] \in DigitChars
  /\ f = OutPrefix \o <<"_">> \o ExactDigits(f) \o CleanSuffix

ExactIndex(f) == DecVal(ExactDigits(f))

OpenedIdx == {events[k].idx : k \in {m \in 1..Len(events) : events[m].op = "open"}}

\* C2: in every run, every index under which the run opens its streams is
\* greater than the index of every file prefix_N_clean.mp4 that was in the
\* output folder when the run started, and the clean file it opens was not there.
Claim_C2 ==
  \A n \in OpenedIdx :
    /\ \A f \in out_at_start.files : IsExactClean(f) => n > ExactIndex(f)
    /\ CleanName(n) \notin out_at_start.files

\* A second run that opened streams while the folder held the first run's files.
Witness_C2 ==
  /\ run = 2
  /\ pc = "done"
  /\ OpenedIdx # {}
  /\ CleanName(4) \in out_at_start.files
  /\ CleanName(5) \in out_at_start.files

\* max(N) + 1 over the names of the exact form, 1 when there is none.
ExactNext(files) ==
  LET ns == {ExactIndex(f) : f \in {g \in files : IsExactClean(g)}}
  IN IF ns = {} THEN 1 ELSE SetMax(ns) + 1

\* C3: the index get_next_video_index returns is max(N) + 1 over the names of
\* the exact form prefix_N_clean.mp4 in the output folder (1 when there is
\* none); other names do not change it.
Claim_C3 == out_scanned => starting_index = ExactNext(out_at_start.files)

\* Position (0-based) of an image in the chunk's slice; names are distinct.
PosInChunk(img) == (CHOOSE k \in 1..Len(video_images) : video_images[k] = img) - 1

\* C4: every row collected for the chunk has as Frame the 0-based position of
\* its image in the chunk's slice, and that lies in [0, chunk size).
Claim_C4 ==
  /\ Len(row_src) = Len(chunk_csv_data)
  /\ \A k \in 1..Len(chunk_csv_data) :
       /\ row_src[k] \in Range(video_images)
       /\ chunk_csv_data[k].Frame = PosInChunk(row_src[k])
       /\ chunk_csv_data[k].Frame >= 0
       /\ chunk_csv_data[k].Frame < frames_per_video

\* A row of the chunk's second image, when its first image failed to decode.
Witness_C4 ==
  /\ j = 2
  /\ clean_frames = 1
  /\ chunk_csv_data # <<>>
  /\ chunk_csv_data[1].Frame = 1

WellFormed(header, line) ==
  /\ IntField(header, line, "Frame").err = ""
  /\ IntField(header, line, "X").err = ""
  /\ IntField(header, line, "Y").err = ""

\* The table of all well-formed rows of the file, in file order.
RECURSIVE TableOfWellFormed(_, _, _, _)
TableOfWellFormed(header, rows, k, table) ==
  IF k > Len(rows) THEN table
  ELSE IF WellFormed(header, rows[k])
       THEN LET r == ParseRow(header, rows[k])
            IN TableOfWellFormed(header, rows, k + 1, TableAppend(table, r.frame, r.point))
       ELSE TableOfWellFormed(header, rows, k + 1, table)

\* C5: the table load_csv_data returns for a readable file holds every
\* well-formed row of the file, in file order under its frame number, whatever
\* malformed rows stand between them.
Claim_C5 ==
  (pc # "load" /\ csv_file.exists /\ csv_file.readable) =>
    points_map = TableOfWellFormed(csv_file.header, csv_file.rows, 1, EmptyTable)

\* C6: when the chunk's streams are released, both have received as many
\* frames as images of the chunk were decoded.
Claim_C6 ==
  pc = "save" =>
    /\ clean_frames = annotated_frames
    /\ clean_frames = Len(decoded)

\* A released chunk in which the image without digits was decoded and written,
\* another image had no points, and one image failed to decode.
Witness_C6 ==
  /\ pc = "save"
  /\ ImgNoDigits \in Range(decoded)
  /\ ImgF10 \in Range(decoded)
  /\ Len(decoded) < Len(video_images)
  /\ annotated_frames = 2

IsCsvEvent(e) == e.op \in {"csv_saved", "csv_failed", "csv_skipped"}

\* C7: the run writes prefix_N.csv only for a chunk with at least one row; a
\* chunk without rows gets none, and its two videos were opened and released
\* under the same N.
Claim_C7 ==
  /\ \A n \in 1..Len(events) + starting_index :
       CsvName(n) \in (out_files \ out_at_start.files) =>
         [op |-> "csv_saved", idx |-> n] \in Range(events)
  /\ (pc \in {"chunk", "done"} /\ events # <<>>) =>
       LET e == Last(events)
       IN /\ IsCsvEvent(e)
          /\ e.op = "csv_saved" => chunk_csv_data # <<>>
          /\ chunk_csv_data = <<>> =>
               /\ e.op = "csv_skipped"
               /\ CsvName(e.idx) \notin (out_files \ out_at_start.files)
               /\ [op |-> "open", idx |-> e.idx] \in Range(events)
               /\ [op |-> "release", idx |-> e.idx] \in Range(events)
               /\ {CleanName(e.idx), AnnotatedName(e.idx)} \subseteq out_files

\* A chunk with frames and no rows was skipped after an earlier chunk's file
\* was saved.
Witness_C7 ==
  /\ pc = "done"
  /\ events # <<>>
  /\ Last(events).op = "csv_skipped"
  /\ clean_frames >= 1
  /\ \E k \in 1..Len(events) : events[k].op = "csv_saved"

\* The number the last run of digits of a name spells, -1 when it has none.
LastRunVal(name) ==
  LET ds == {k \in 1..Len(name) : name[k] \in DigitChars}
  IN IF ds = {} THEN -1
     ELSE LET e == SetMax(ds)
              b == CHOOSE x \in 1..e :
                     /\ \A y \in x..e : name[y] \in DigitChars
                     /\ (x = 1 \/ name[x - 1] \notin DigitChars)
          IN DecVal(SubSeq(name, b, e))

ImageFrames == {LastRunVal(images[k]) : k \in 1..Len(images)} \ {-1}

\* The rows of the decoded images of the chunk, from the points of the frames
\* that images of the input set carry.
RECURSIVE RowsFromImageFrames(_)
RowsFromImageFrames(k) ==
  IF k > Len(video_images) THEN <<>>
  ELSE LET g == LastRunVal(video_images[k])
           ps == IF video_images[k] \in Range(decoded) /\ g \in ImageFrames
                    /\ g \in DOMAIN points_map
                 THEN points_map[g] ELSE <<>>
       IN [m \in 1..Len(ps) |->
             [Frame |-> k - 1, Name |-> ps[m].name, X |-> ps[m].x, Y |-> ps[m].y]]
          \o RowsFromImageFrames(k + 1)

\* C8: every collected row is a point of the table at a frame number that is
\* the last run of digits of some image of the input set, and the rows of a
\* released chunk are those the table gives with all other frames left out.
Claim_C8 ==
  /\ \A k \in 1..Len(chunk_csv_data) :
       \E g \in (DOMAIN points_map) \cap ImageFrames :
         \E m \in 1..Len(points_map[g]) :
           /\ points_map[g][m].name = chunk_csv_data[k].Name
           /\ points_map[g][m].x = chunk_csv_data[k].X
           /\ points_map[g][m].y = chunk_csv_data[k].Y
  /\ pc = "save" => chunk_csv_data = RowsFromImageFrames(1)

\* A released chunk whose rows come from c2_01.JPG (last run of digits 01) while
\* the table also holds a point for frame 9, which no image carries.
Witness_C8 ==
  /\ pc = "save"
  /\ chunk_csv_data # <<>>
  /\ DOMAIN points_map = {1, 9}
  /\ ImgTwoRuns \in Range(decoded)
  /\ ImgF1 \notin Range(images)

\* C9: with no image, or with the first image not decodable, the run is aborted
\* and has produced nothing: no stream opened, no file written, the output
\* folder neither listed nor created.
Claim_C9 ==
  /\ (pc \notin {"load", "list"} /\ images = <<>>) => pc = "aborted"
  /\ first_frame = "none" => pc = "aborted"
  /\ pc = "aborted" =>
       /\ events = <<>>
       /\ chunks = <<>>
       /\ out_files = out_at_start.files
       /\ out_exists = out_at_start.exists
       /\ ~out_scanned

\* Aborted on the first image with explicit frame dimensions and no output
\* folder yet.
Witness_C9 ==
  /\ pc = "aborted"
  /\ first_frame = "none"
  /\ frame_size_arg
  /\ ~out_exists

\* The events of a run over M images in chunks of C from index S on.
NumChunks(M, C) == CHOOSE n \in 0..M : n * C >= M /\ (n = 0 \/ (n - 1) * C < M)

RECURSIVE ChunkEvents(_, _, _, _)
ChunkEvents(S, M, C, k) ==
  IF k >= NumChunks(M, C) THEN <<>>
  ELSE LET size == IF (k + 1) * C <= M THEN C ELSE M - k * C
       IN <<[op |-> "open", idx |-> S + k]>>
          \o [m \in 1..size |-> [op |-> "image", idx |-> S + k]]
          \o <<[op |-> "release", idx |-> S + k], [op |-> "csv", idx |-> S + k]>>
          \o ChunkEvents(S, M, C, k + 1)

\* The events with the three outcomes of the CSV step taken as one.
EventsSeen ==
  [k \in 1..Len(events) |->
     IF IsCsvEvent(events[k]) THEN [op |-> "csv", idx |-> events[k].idx] ELSE events[k]]

IsPrefix(a, b) == Len(a) <= Len(b) /\ a = SubSeq(b, 1, Len(a))

RunEventsInOrder ==
  pc \in {"chunk", "frames", "save", "done"} =>
    LET want == ChunkEvents(starting_index, Len(images), frames_per_video, 0)
    IN /\ IsPrefix(EventsSeen, want)
       /\ pc = "done" => EventsSeen = want

\* C10: once the first image was read, the run ends, and its events are, chunk
\* after chunk from the starting index on, one index per chunk: open, one event
\* per image of the chunk, release, the CSV step.
Claim_C10 == [](RunEventsInOrder) /\ (pc = "calc" ~> pc = "done")

\* A finished run from index 3 on, of at least two chunks, whose last chunk
\* had no image decoded and in which a CSV write failed.
Witness_C10 ==
  /\ pc = "done"
  /\ starting_index = 3
  /\ Len(chunks) >= 2
  /\ decoded = <<>>
  /\ \E k \in 1..Len(events) : events[k].op = "csv_failed"

====
